---------------------------- MODULE Spec2Model ----------------------------
(***************************************************************************)
(* A model of the data-transformer service: the schema-driven transform    *)
(* engine (data_transformer_core/engine.py), its strategies                *)
(* (oc_strategies.py, us_fl_strategies.py), the Transformer facade         *)
(* (transformer.py) and the SQS batch handler (lambda_handler.py).         *)
(*                                                                         *)
(* Python values are records [t, s]: t is the Python type and s the text   *)
(* of the value as a sequence of one-character strings, so that str(),     *)
(* strip(), len() and slicing are computed rather than assumed.            *)
(***************************************************************************)
EXTENDS Integers, Sequences, FiniteSets, TLC

VARIABLES
    config,        \* TransformEngine.config: the loaded configuration mapping
    env,           \* the process environment and the mapping files on disk
    engine,        \* the TransformEngine: construction state and mapping_data
    staged_data,   \* the staged record last handed to transform_record
    result,        \* the TransformationResult last returned
    created,       \* the strategies instantiated by the last transform_record
    handler,       \* TransformerLambdaHandler: bus, config, transformer, _initialized
    transformed,   \* the store's "transformed" stage: payload and metadata per SnapshotId
    post_count,    \* post_snapshot_json calls of the batch handler, per SnapshotId
    cli_posts,     \* post_snapshot_json calls of process_record_added_event
    pc,            \* position of handle_sqs_event: "idle", "loop" or "done"
    event,         \* the SQS event of the invocation: its Records
    faults,        \* the store outcome met by each record processed so far
    results,       \* the results list of the invocation
    response,      \* the response of the last finished invocation
    calls,         \* the bus and transformer calls of the invocation, per record
    init_raised,   \* whether _initialize raised in the invocation
    init_calls,    \* the constructor calls _initialize made in the invocation
    entry_store,   \* the "transformed" stage as it was when the invocation began
    prev,          \* what the previous report-returning invocation did, per SnapshotId
    unit_strategy, \* a strategy instance constructed on its own
    unit_value,    \* the value last handed to its transform
    unit_output,   \* what that transform returned
    cli_run,       \* the last run of Transformer.process_record_added_event
    workers        \* handlers running _process_record concurrently: position, record, calls, entry

engine_vars == <<config, env, engine, staged_data, result, created>>

handler_vars ==
    <<handler, transformed, post_count, cli_posts, pc, event, faults, results,
      response, calls, init_raised, init_calls, entry_store, prev>>

strategy_vars == <<unit_strategy, unit_value, unit_output>>

cli_vars == <<cli_run>>

concurrent_vars == <<workers>>

vars == <<engine_vars, handler_vars, strategy_vars, cli_vars, concurrent_vars>>

-----------------------------------------------------------------------------
(* Python values *)

None == [t |-> "none", s |-> <<>>]

Str(chars) == [t |-> "str", s |-> chars]

PyInt(digits) == [t |-> "int", s |-> digits]

EmptyList == [t |-> "list", s |-> <<>>]

EmptyDict == [t |-> "dict", s |-> <<>>]

\* A loaded mapping table held as a value, named by its logical name.
Table(name) == [t |-> "table", s |-> name]

\* bool(value): None, "", 0, [] and {} are falsy.
Truthy(v) ==
    CASE v.t = "none" -> FALSE
      [] v.t = "str"  -> v.s # <<>>
      [] v.t = "int"  -> v.s # <<"0">>
      [] v.t = "list" -> FALSE
      [] v.t = "dict" -> FALSE
      [] OTHER        -> TRUE

\* str(value)
PyStr(v) ==
    CASE v.t = "none" -> <<"N", "o", "n", "e">>
      [] v.t = "list" -> <<"[", "]">>
      [] v.t = "dict" -> <<"{", "}">>
      [] v.t = "table" -> <<"{", ".", "}">>
      [] OTHER        -> v.s

IsSpace(c) == c = " "

RECURSIVE LStrip(_)
LStrip(chars) ==
    IF chars # <<>> /\ IsSpace(Head(chars)) THEN LStrip(Tail(chars)) ELSE chars

RECURSIVE RStrip(_)
RStrip(chars) ==
    IF chars # <<>> /\ IsSpace(chars[Len(chars)])
    THEN RStrip(SubSeq(chars, 1, Len(chars) - 1))
    ELSE chars

\* str.strip()
Strip(chars) == RStrip(LStrip(chars))

\* dict.get(key) on a staged record held as [t |-> "dict", d |-> mapping]
DictGet(data, key) == IF key \in DOMAIN data.d THEN data.d[key] ELSE None

-----------------------------------------------------------------------------
(* Strategies *)

\* The names register_oc_strategies and register_us_fl_strategies register.
Registered ==
    { "oc.direct_mapping", "oc.fixed_value", "oc.lookup_mapping_file",
      "us_fl.parse_date", "us_fl.determine_branch_status",
      "us_fl.build_headquarters_address", "us_fl.build_mailing_address",
      "us_fl.build_officers_array", "us_fl.build_all_attributes",
      "us_fl.build_identifiers" }

DirectMappingStrategy_transform(value) == value

\* A fixed value that yields to the input when there is one.
FixedValueStrategy_transform_OrInput(strategy, value) ==
    IF value.t = "none" THEN strategy.fixed_value ELSE value

FixedValueStrategy_transform(strategy, value) == strategy.fixed_value

\* self.mapping_data.get(str(value).strip(), value) on the mapping the
\* strategy was constructed with.
LookupMappingStrategy_transform(strategy, value) ==
    IF value.t = "none" \/ value = Str(<<>>)
    THEN None
    ELSE LET key == Strip(PyStr(value))
         IN  IF key \in DOMAIN strategy.mapping_data
             THEN strategy.mapping_data[key]
             ELSE value

ParseDateStrategy_transform(value) ==
    IF ~Truthy(value) \/ Len(PyStr(value)) # 8
    THEN None
    ELSE LET date_str == PyStr(value)
         IN  Str(SubSeq(date_str, 5, 8) \o <<"-">> \o SubSeq(date_str, 1, 2)
                 \o <<"-">> \o SubSeq(date_str, 3, 4))

\* A classification that falls back to "false" for a code it does not know.
DetermineBranchStatusStrategy_transform_Default(value) ==
    IF ~Truthy(value)
    THEN None
    ELSE IF Strip(PyStr(value)) \in {<<"F", "O", "R">>, <<"F", "L", "L">>}
         THEN Str(<<"t", "r", "u", "e">>)
         ELSE Str(<<"f", "a", "l", "s", "e">>)

DetermineBranchStatusStrategy_transform(value) ==
    IF ~Truthy(value)
    THEN None
    ELSE LET filing_type == Strip(PyStr(value))
         IN  IF filing_type \in {<<"F", "O", "R">>, <<"F", "L", "L">>}
             THEN Str(<<"t", "r", "u", "e">>)
             ELSE IF filing_type = <<"D", "O", "M">>
                  THEN Str(<<"f", "a", "l", "s", "e">>)
                  ELSE None

\* strategy.transform(value), by the class of the strategy instance
StrategyTransform(strategy, value) ==
    CASE strategy.kind = "oc.direct_mapping" -> DirectMappingStrategy_transform(value)
      [] strategy.kind = "oc.fixed_value" -> FixedValueStrategy_transform(strategy, value)
      [] strategy.kind = "oc.lookup_mapping_file" ->
            LookupMappingStrategy_transform(strategy, value)
      [] strategy.kind = "us_fl.parse_date" -> ParseDateStrategy_transform(value)
      [] strategy.kind = "us_fl.determine_branch_status" ->
            DetermineBranchStatusStrategy_transform(value)
      [] strategy.kind = "us_fl.build_headquarters_address" -> None
      [] strategy.kind = "us_fl.build_mailing_address" -> None
      [] strategy.kind = "us_fl.build_officers_array" -> EmptyList
      [] strategy.kind = "us_fl.build_all_attributes" -> EmptyDict
      [] OTHER -> EmptyList

\* factory.validate(config): the required keys of each strategy's configuration.
\* Returns the error raised, or "" when the configuration is valid.
FactoryValidate(name, field_config) ==
    CASE name = "oc.fixed_value" /\ "fixed_value" \notin field_config.keys ->
            "ValueError: fixed_value is required"
      [] name = "oc.lookup_mapping_file" /\ "mapping_file" \notin field_config.keys ->
            "ValueError: mapping_file is required"
      [] OTHER -> ""

\* factory.create(validated, mapping_data=...): the strategy instance.
FactoryCreate(name, field_config, mapping_data) ==
    [ kind |-> name,
      fixed_value |-> IF name = "oc.fixed_value" THEN field_config.fixed_value ELSE None,
      mapping_file |-> IF name = "oc.lookup_mapping_file"
                       THEN field_config.mapping_file ELSE <<>>,
      mapping_data |-> IF name = "oc.lookup_mapping_file"
                       THEN [n \in DOMAIN mapping_data |-> Table(n)] ELSE <<>> ]

\* registry.create_strategy(TransformationStrategy, name, config, **kwargs):
\* look the factory up, validate the raw configuration, create the instance.
create_strategy(name, field_config, mapping_data) ==
    IF name \notin Registered
    THEN [raised |-> TRUE, error |-> "UnknownStrategyError", strategy |-> <<>>]
    ELSE IF FactoryValidate(name, field_config) # ""
         THEN [raised |-> TRUE, error |-> FactoryValidate(name, field_config),
               strategy |-> <<>>]
         ELSE [raised |-> FALSE, error |-> "",
               strategy |-> FactoryCreate(name, field_config, mapping_data)]

-----------------------------------------------------------------------------
(* TransformEngine *)

NoText == [t |-> "none", text |-> <<>>]

Text(words) == [t |-> "str", text |-> words]

\* TransformationResult (engine.py): success, transformed_data, error_message,
\* skipped, skip_reason, with the dataclass defaults.
TransformationResult(success, transformed_data, error_message, skipped, skip_reason) ==
    [ success |-> success, transformed_data |-> transformed_data,
      error_message |-> error_message, skipped |-> skipped,
      skip_reason |-> skip_reason ]

NoData == [t |-> "none", d |-> <<>>]

Data(mapping) == [t |-> "dict", d |-> mapping]

\* The loop of _load_mapping_files over the declared files [name, file]: a
\* file that opens and parses adds its table under the logical name; a
\* missing file (FileNotFoundError) or malformed one (JSONDecodeError) is
\* logged and adds nothing.
RECURSIVE LoadFiles(_, _, _)
LoadFiles(files, environment, loaded) ==
    IF files = <<>>
    THEN loaded
    ELSE LET f == Head(files)
             next == IF environment.files[f.name].status = "ok"
                     THEN [n \in DOMAIN loaded \cup {f.name} |->
                              IF n = f.name THEN environment.files[f.name].table
                              ELSE loaded[n]]
                     ELSE loaded
         IN  LoadFiles(Tail(files), environment, next)

\* _load_mapping_files: nothing is loaded without OC_DATA_PIPELINE_CONFIG_DIR.
load_mapping_files(cfg, environment) ==
    IF ~environment.config_dir_set
    THEN <<>>
    ELSE LoadFiles(cfg.mapping_files, environment, <<>>)

\* IsBlank without the trim: a whitespace-only value no longer counts as blank.
IsBlank_NoStrip(value) == ~Truthy(value)

\* The blank test of line 80: not value or str(value).strip() == "".
IsBlank(value) == ~Truthy(value) \/ Strip(PyStr(value)) = <<>>

\* The loop of _should_skip_record over the conditions in declared order.
RECURSIVE SkipLoop(_, _)
SkipLoop(conditions, data) ==
    IF conditions = <<>>
    THEN [raised |-> FALSE, skip |-> FALSE, reason |-> NoText]
    ELSE LET condition == Head(conditions)
             field == condition.field
             operator == condition.operator
         IN  IF field = "" \/ operator = ""
             THEN SkipLoop(Tail(conditions), data)
             ELSE IF data.t # "dict"
                  THEN [raised |-> TRUE, skip |-> FALSE, reason |-> NoText]
                  ELSE IF operator = "blank" /\ IsBlank(DictGet(data, field))
                       THEN [raised |-> FALSE, skip |-> TRUE,
                             reason |-> Text(<<"Field", field, "is blank">>)]
                       ELSE SkipLoop(Tail(conditions), data)

\* _should_skip_record: raises when validation_rules or skip_conditions is not
\* a mapping / a list, or when the staged record has no get().
should_skip_record(cfg, data) ==
    IF cfg.validation_rules.t # "dict"
    THEN [raised |-> TRUE, skip |-> FALSE, reason |-> NoText]
    ELSE SkipLoop(cfg.validation_rules.skip_conditions, data)

\* _apply_transformation handing the input through when the field has no
\* transformation_logic.
apply_transformation_PassThrough(field_config, data, mapping_data) ==
    IF field_config.t # "dict"
    THEN [raised |-> TRUE, value |-> None, created |-> <<>>]
    ELSE LET transformation_logic == field_config.transformation_logic
             input_source == field_config.input_source
         IN  IF input_source # "" /\ data.t # "dict"
             THEN [raised |-> TRUE, value |-> None, created |-> <<>>]
             ELSE LET input_value == IF input_source # ""
                                     THEN DictGet(data, input_source)
                                     ELSE None
                      made == create_strategy(transformation_logic, field_config,
                                              mapping_data)
                  IN  IF transformation_logic = "" \/ made.raised
                      THEN [raised |-> FALSE, value |-> input_value, created |-> <<>>]
                      ELSE [raised |-> FALSE,
                            value |-> StrategyTransform(made.strategy, input_value),
                            created |-> <<transformation_logic>>]

\* _apply_transformation: [raised, value, created].  created lists the strategy
\* instantiated, if any.  A failure of create_strategy or of transform is
\* caught and the raw input value returned (lines 115-121).
apply_transformation(field_config, data, mapping_data) ==
    IF field_config.t # "dict"
    THEN [raised |-> TRUE, value |-> None, created |-> <<>>]
    ELSE LET transformation_logic == field_config.transformation_logic
             input_source == field_config.input_source
         IN  IF transformation_logic = ""
             THEN [raised |-> FALSE, value |-> None, created |-> <<>>]
             ELSE IF input_source # "" /\ data.t # "dict"
                  THEN [raised |-> TRUE, value |-> None, created |-> <<>>]
                  ELSE LET input_value == IF input_source # ""
                                          THEN DictGet(data, input_source)
                                          ELSE None
                           made == create_strategy(transformation_logic, field_config,
                                                   mapping_data)
                       IN  IF made.raised
                           THEN [raised |-> FALSE, value |-> input_value,
                                 created |-> <<>>]
                           ELSE [raised |-> FALSE,
                                 value |-> StrategyTransform(made.strategy, input_value),
                                 created |-> <<transformation_logic>>]

\* The per-field loop leaving at the first field that raises, instead of
\* logging it and continuing with the next field.
RECURSIVE FieldLoop_Abort(_, _, _, _, _)
FieldLoop_Abort(items, data, mapping_data, transformed_data, made) ==
    IF items = <<>>
    THEN [transformed_data |-> transformed_data, created |-> made]
    ELSE LET field_name == Head(items).name
             applied == apply_transformation(Head(items).spec, data, mapping_data)
             next == IF applied.value # None
                     THEN [n \in DOMAIN transformed_data \cup {field_name} |->
                              IF n = field_name THEN applied.value
                              ELSE transformed_data[n]]
                     ELSE transformed_data
         IN  IF applied.raised
             THEN [transformed_data |-> transformed_data, created |-> made]
             ELSE FieldLoop_Abort(Tail(items), data, mapping_data, next,
                                  made \o applied.created)

\* The per-field loop of transform_record (lines 139-152): a field whose
\* _apply_transformation raises is logged and skipped, a None value is omitted.
RECURSIVE FieldLoop(_, _, _, _, _)
FieldLoop(items, data, mapping_data, transformed_data, made) ==
    IF items = <<>>
    THEN [transformed_data |-> transformed_data, created |-> made]
    ELSE LET field_name == Head(items).name
             applied == apply_transformation(Head(items).spec, data, mapping_data)
             next == IF ~applied.raised /\ applied.value # None
                     THEN [n \in DOMAIN transformed_data \cup {field_name} |->
                              IF n = field_name THEN applied.value
                              ELSE transformed_data[n]]
                     ELSE transformed_data
         IN  FieldLoop(Tail(items), data, mapping_data, next, made \o applied.created)

\* The result of line 129: a record skipped by a skip condition.
SkippedResult(skip_reason) == TransformationResult(TRUE, NoData, NoText, TRUE, skip_reason)

\* The result of line 154: the accumulated mapping, possibly empty.
SuccessResult(transformed_data) ==
    TransformationResult(TRUE, Data(transformed_data), NoText, FALSE, NoText)

\* FailedResult without the message: the failure is reported with no error_message.
FailedResult_NoMessage(error) == TransformationResult(FALSE, NoData, NoText, FALSE, NoText)

\* The result of line 166: an exception outside the per-field loop.
FailedResult(error) == TransformationResult(FALSE, NoData, Text(<<error>>), FALSE, NoText)

\* transform_record failing the record when a field of the schema raises.
TransformRun_FieldFailureFatal(cfg, mapping_data, data) ==
    LET skip == should_skip_record(cfg, data)
    IN  IF skip.raised
        THEN [result |-> FailedResult("AttributeError"), created |-> <<>>]
        ELSE IF skip.skip
             THEN [result |-> SkippedResult(skip.reason), created |-> <<>>]
             ELSE IF cfg.company.t # "dict"
                  THEN [result |-> FailedResult("AttributeError"), created |-> <<>>]
                  ELSE LET done == FieldLoop(cfg.company.items, data, mapping_data,
                                             <<>>, <<>>)
                       IN  IF \E i \in DOMAIN cfg.company.items :
                                 apply_transformation(cfg.company.items[i].spec, data,
                                                      mapping_data).raised
                           THEN [result |-> FailedResult("AttributeError"),
                                 created |-> done.created]
                           ELSE [result |-> SuccessResult(done.transformed_data),
                                 created |-> done.created]

\* transform_record with the strategies it instantiated: [result, created].
TransformRun(cfg, mapping_data, data) ==
    LET skip == should_skip_record(cfg, data)
    IN  IF skip.raised
        THEN [result |-> FailedResult("AttributeError"), created |-> <<>>]
        ELSE IF skip.skip
             THEN [result |-> SkippedResult(skip.reason), created |-> <<>>]
             ELSE IF cfg.company.t # "dict"
                  THEN [result |-> FailedResult("AttributeError"), created |-> <<>>]
                  ELSE LET done == FieldLoop(cfg.company.items, data, mapping_data,
                                             <<>>, <<>>)
                       IN  [result |-> SuccessResult(done.transformed_data),
                            created |-> done.created]

transform_record(cfg, mapping_data, data) == TransformRun(cfg, mapping_data, data).result

-----------------------------------------------------------------------------
(* Bounded inputs of the engine *)

MaxFields == 2

TargetNames == <<"name", "company_number", "company_type">>

TableName == <<"T">>

\* The mapping table of the file declared under the logical name T.
TableT == [k \in {<<"A">>} |-> <<"A", "c", "t", "i", "v", "e">>]

\* A second declared mapping file, under the logical name U.
OtherTableName == <<"U">>

TableU == [k \in {<<"B">>} |-> <<"B", "e", "t", "a">>]

MappingFiles ==
    << [name |-> TableName, file |-> "t.json"], [name |-> OtherTableName, file |-> "u.json"] >>

\* The declared files on disk: T readable, missing or not JSON; U readable.
Disk(status) ==
    [n \in {TableName, OtherTableName} |->
        IF n = TableName THEN [status |-> status, table |-> TableT]
        ELSE [status |-> "ok", table |-> TableU]]

Cond(field, operator) == [field |-> field, operator |-> operator]

\* validation_rules: absent a mapping (a YAML null), or a list of skip
\* conditions; a condition may lack its field or name another operator.
ValidationRules ==
    { [t |-> "none", skip_conditions |-> <<>>] } \cup
    { [t |-> "dict", skip_conditions |-> cs] :
        cs \in { <<>>,
                 <<Cond("COR_NAME", "blank")>>,
                 <<Cond("COR_NAME", "blank"), Cond("COR_NUMBER", "blank")>>,
                 <<Cond("COR_NUMBER", "blank"), Cond("COR_NAME", "blank")>>,
                 <<Cond("COR_NAME", "equals"), Cond("COR_NUMBER", "blank")>>,
                 <<Cond("", "blank"), Cond("COR_NAME", "blank")>>,
                 <<Cond("COR_NAME", "")>> } }

FieldConfig(logic, source, keys) ==
    [ t |-> "dict", transformation_logic |-> logic, input_source |-> source,
      keys |-> keys, fixed_value |-> Str(<<"u", "s", "_", "f", "l">>),
      mapping_file |-> TableName ]

\* A field specification that is not a mapping (a YAML null).
NotADict ==
    [ t |-> "none", transformation_logic |-> "", input_source |-> "",
      keys |-> {}, fixed_value |-> None, mapping_file |-> <<>> ]

FieldSpecSet ==
    { FieldConfig("oc.direct_mapping", "COR_NAME", {}),
      FieldConfig("oc.fixed_value", "COR_NAME", {"fixed_value"}),
      FieldConfig("oc.fixed_value", "COR_NUMBER", {}),
      FieldConfig("oc.lookup_mapping_file", "COR_NAME", {"mapping_file"}),
      FieldConfig("unknown.strategy", "COR_NAME", {}),
      FieldConfig("", "COR_NAME", {}),
      NotADict }

\* The company schema: an ordered mapping, the i-th entry under TargetNames[i].
Company ==
    { [t |-> "none", items |-> <<>>] } \cup
    { [t |-> "dict", items |-> [i \in DOMAIN specs |->
                                   [name |-> TargetNames[i], spec |-> specs[i]]]] :
        specs \in UNION { [1..n -> FieldSpecSet] : n \in 0..MaxFields } }

\* The configuration of test_transform_record_success.
SuccessTestConfig ==
    [ validation_rules |-> [t |-> "dict", skip_conditions |-> <<>>],
      company |->
          [t |-> "dict",
           items |-> << [name |-> "company_number",
                         spec |-> FieldConfig("oc.direct_mapping", "COR_NUMBER", {})],
                        [name |-> "name",
                         spec |-> FieldConfig("oc.direct_mapping", "COR_NAME", {})],
                        [name |-> "jurisdiction_code",
                         spec |-> FieldConfig("oc.fixed_value", "", {"fixed_value"})] >>],
      mapping_files |-> MappingFiles ]

Configs ==
    { SuccessTestConfig } \cup
    [ validation_rules : ValidationRules, company : Company,
      mapping_files : { MappingFiles } ]

\* The environment: whether OC_DATA_PIPELINE_CONFIG_DIR is set, and the state
\* of the declared file on disk.
Envs ==
    { [config_dir_set |-> FALSE, files |-> Disk("ok")],
      [config_dir_set |-> TRUE, files |-> Disk("ok")],
      [config_dir_set |-> TRUE, files |-> Disk("missing")],
      [config_dir_set |-> TRUE, files |-> Disk("malformed")] }

Staged(name, number) ==
    Data([f \in {"COR_NAME", "COR_NUMBER"} |-> IF f = "COR_NAME" THEN name ELSE number])

\* The staged record of test_transform_record_success.
SuccessTestRecord ==
    Staged(Str(<<"T", "e", "s", "t", " ", "C", "o", "m", "p", "a", "n", "y">>),
           Str(<<"1", "2", "3", "4", "5">>))

\* Staged records: mappings with COR_NAME None, blank, set (to a key of a
\* table, to a logical table name, to neither) or absent, and a JSON payload
\* that is a list.
StagedRecords ==
    { Staged(nm, Str(<<"1">>)) :
        nm \in { None, Str(<<>>), Str(<<" ">>), Str(<<"X">>), Str(<<"A">>),
                 Str(<<"T">>), Str(<<"U">>), PyInt(<<"0">>) } } \cup
    { Staged(Str(<<"X">>), Str(<<>>)),
      Data([f \in {"COR_NUMBER"} |-> Str(<<"1">>)]),
      [t |-> "list", d |-> <<>>],
      SuccessTestRecord }

NoResult == TransformationResult(FALSE, NoData, NoText, FALSE, NoText)

-----------------------------------------------------------------------------
(* Strategies constructed on their own, as the unit tests construct them *)

Instance(kind, fixed_value, mapping_data) ==
    [ kind |-> kind, fixed_value |-> fixed_value,
      mapping_file |-> IF kind = "oc.lookup_mapping_file" THEN TableName ELSE <<>>,
      mapping_data |-> mapping_data ]

\* LookupMappingStrategy(config, mapping_data) is given one table: key to label.
LabelTable == [k \in DOMAIN TableT |-> Str(TableT[k])]

Instances ==
    { Instance("oc.direct_mapping", None, <<>>),
      Instance("oc.fixed_value", Str(<<"u", "s", "_", "f", "l">>), <<>>),
      Instance("oc.lookup_mapping_file", None, LabelTable),
      Instance("oc.lookup_mapping_file", None, <<>>),
      Instance("us_fl.parse_date", None, <<>>),
      Instance("us_fl.determine_branch_status", None, <<>>) }

Text8(a, b, c, d, e, f, g, h) == Str(<<a, b, c, d, e, f, g, h>>)

\* The values the tests hand to transform, with padded, non-string and
\* eight-character variants.
Values ==
    { None, Str(<<>>), Str(<<" ">>), Str(<<" ", " ">>),
      Str(<<"A">>), Str(<<" ", "A", " ">>), Str(<<"X">>), Str(<<"X", " ">>),
      PyInt(<<"0">>), PyInt(<<"5">>), EmptyList,
      Text8("0", "9", "0", "1", "2", "0", "2", "5"),
      Text8("1", "2", "3", "1", "2", "0", "2", "4"),
      Str(<<"i", "n", "v", "a", "l", "i", "d">>),
      Str(<<"1", "2", "3", "4", "5", "6", "7">>),
      Str(<<"1", "2", "3", "4", "5", "6", "7", "8", "9">>),
      Text8("a", "b", "c", "d", "e", "f", "g", "h"),
      Text8("0", "9", "/", "0", "1", "/", "2", "5"),
      Str(<<"F", "O", "R">>), Str(<<"F", "L", "L">>), Str(<<"D", "O", "M">>),
      Str(<<"L", "L", "C">>), Str(<<" ", "F", "O", "R", " ">>),
      Str(<<"D", "O", "M", " ">>), Str(<<"f", "o", "r">>) }

NoOutput == [returned |-> FALSE, value |-> None]

StrategyIdle ==
    /\ unit_strategy = Instance("oc.direct_mapping", None, <<>>)
    /\ unit_value = None
    /\ unit_output = NoOutput

StrategyInit ==
    /\ unit_strategy \in Instances
    /\ unit_value = None
    /\ unit_output = NoOutput

\* strategy.transform(value) on the constructed instance
StrategyApply ==
    /\ \E v \in Values :
          /\ unit_value' = v
          /\ unit_output' = [returned |-> TRUE, value |-> StrategyTransform(unit_strategy, v)]
    /\ UNCHANGED <<unit_strategy, engine_vars, handler_vars, cli_vars, concurrent_vars>>

CliIdle == cli_run = [ran |-> FALSE, change_event |-> [event |-> "", stage |-> "", sid |-> <<"", "">>],
                      fault |-> "none", raised |-> FALSE, calls |-> <<>>, result |-> NoResult]

-----------------------------------------------------------------------------
(* Transformer and TransformerLambdaHandler *)

MaxBatch == 3

MaxCliPosts == 2

SnapshotId(ocid, bid) == <<ocid, bid>>

Sids == { SnapshotId("o1", "b1"), SnapshotId("o2", "b1") }

\* The configuration both entry points load: the schema of
\* test_transform_record_success behind the conditions of
\* test_skip_record_blank_name.
HandlerConfig ==
    [ validation_rules |->
          [t |-> "dict",
           skip_conditions |-> <<Cond("COR_NAME", "blank"), Cond("COR_NUMBER", "blank")>>],
      company |->
          [t |-> "dict",
           items |-> << [name |-> "name",
                         spec |-> FieldConfig("oc.direct_mapping", "COR_NAME", {})],
                        [name |-> "jurisdiction_code",
                         spec |-> FieldConfig("oc.fixed_value", "", {"fixed_value"})] >>],
      mapping_files |-> MappingFiles ]

HandlerEnv == [config_dir_set |-> TRUE, files |-> Disk("ok")]

\* The "staged" stage of the store: o1 holds a transformable record, o2 one
\* with a blank COR_NAME.
StagedStore ==
    [ sid \in Sids |->
        IF sid[1] = "o1" THEN Staged(Str(<<"X">>), Str(<<"1">>))
        ELSE Staged(Str(<<>>), Str(<<"1">>)) ]

\* What the store does for one record: nothing special, the staged read
\* raises, or the transformed read raises an error other than not-found.
Faults == {"none", "staged_error", "transformed_error"}

\* A Transformer that does define transform_record.
TransformerAttrs_WithTransformRecord ==
    {"config", "bus", "engine", "process_record_added_event", "transform_record"}

\* The attributes of a Transformer instance (class Transformer).
TransformerAttrs == {"config", "bus", "engine", "process_record_added_event"}

\* The names the module lambda_handler.py binds (its imports and definitions).
HandlerModuleNames ==
    { "json", "os", "Any", "structlog", "DataPipelineBus", "SnapshotId",
      "DataPipelineConfig", "Transformer", "logger", "TransformerLambdaHandler",
      "_handler", "lambda_handler" }

\* An SQS record: messageId and the body.  json is FALSE when the body does
\* not parse; lacks names the key the body is missing, if any: "change" (no
\* change, or an empty one), "record_id" (a change without record_id); ocid or
\* bid is "" when the record_id lacks it.
Notification(messageId, ocid, bid, kind, stage, lacks) ==
    [ messageId |-> messageId,
      body |-> [json |-> TRUE,
                has_change |-> lacks # "change",
                has_record_id |-> lacks \notin {"change", "record_id"},
                change |-> [event |-> kind, stage |-> stage,
                            record_id |-> [ocid |-> ocid, bid |-> bid]]] ]

\* The envelopes: record_added from staged for two snapshot ids, one that
\* reports another stage, and those that lack the bid, the ocid, the record_id
\* or the change.
Bodies ==
    { <<"o1", "b1", "record_added", "staged", "">>,
      <<"o2", "b1", "record_added", "staged", "">>,
      <<"o1", "b1", "record_added", "parsed", "">>,
      <<"o1", "", "record_added", "staged", "">>,
      <<"", "b1", "record_added", "staged", "">>,
      <<"", "", "record_added", "staged", "record_id">>,
      <<"", "", "", "", "change">> }

\* The events: up to MaxBatch records, the i-th with messageId i.
Events ==
    UNION { { [i \in 1..n |->
                 Notification(i, ids[i][1], ids[i][2], ids[i][3], ids[i][4], ids[i][5])] :
                ids \in [1..n -> Bodies] } : n \in 0..MaxBatch }

\* The metadata of lines 174-178.
Metadata ==
    [transformed_at |-> "utcnow", transformer_version |-> "1.0", source_stage |-> "staged"]

\* One entry of the results list; a key the entry lacks is "" (<<>> for the
\* reason, FALSE for skipped).
ResultEntry(recordId, success, skipped, reason, error, ocid) ==
    [ recordId |-> recordId, success |-> success, skipped |-> skipped,
      reason |-> reason, error |-> error, ocid |-> ocid ]

NoMetadata == [transformed_at |-> "", transformer_version |-> "", source_stage |-> ""]

\* A call made on the pipeline bus or the transformer, as the record of what
\* an invocation did.
Call(op, sid, outcome) ==
    [op |-> op, sid |-> sid, outcome |-> outcome, metadata |-> NoMetadata,
     data |-> NoData]

PostCall(sid, metadata, data) ==
    [op |-> "post_snapshot_json", sid |-> sid, outcome |-> "ok",
     metadata |-> metadata, data |-> data]

\* Lines 153-195 of _process_record once self.transformer.transform_record is
\* bound: the engine result decides between failure, skip and store write.
AfterTransform(record, sid, store, engine_result, calls_so_far) ==
    IF ~engine_result.success
    THEN [ entry |-> ResultEntry(record.messageId, FALSE, FALSE, <<>>,
                                 "Transformation failed", ""),
           store |-> store, posted |-> {},
           calls |-> calls_so_far ]
    ELSE IF engine_result.skipped
         THEN [ entry |-> ResultEntry(record.messageId, TRUE, TRUE,
                                      engine_result.skip_reason.text, "", ""),
                store |-> store, posted |-> {},
                calls |-> calls_so_far ]
         ELSE [ entry |-> ResultEntry(record.messageId, TRUE, FALSE, <<>>, "", sid[1]),
                store |-> [store EXCEPT ![sid] =
                              [data |-> engine_result.transformed_data,
                               metadata |-> Metadata]],
                posted |-> {sid},
                calls |-> calls_so_far \o
                          <<PostCall(sid, Metadata, engine_result.transformed_data)>> ]

\* _process_record probing the transformed stage before it fetches the staged
\* payload.
process_record_ProbeFirst(record, fault, store) ==
    LET ocid == record.body.change.record_id.ocid
        bid == record.body.change.record_id.bid
        sid == SnapshotId(ocid, bid)
        failure(error, made) ==
            [ entry |-> ResultEntry(record.messageId, FALSE, FALSE, <<>>, error, ""),
              store |-> store, posted |-> {}, calls |-> made ]
    IN  IF ~record.body.json
        THEN failure("JSONDecodeError", <<>>)
        ELSE IF ~record.body.has_change
        THEN failure("No change event found in message", <<>>)
        ELSE IF ~record.body.has_record_id
        THEN failure("No record_id found in change event", <<>>)
        ELSE IF ocid = "" \/ bid = ""
        THEN failure("Invalid record_id: missing ocid or bid", <<>>)
        ELSE IF sid \in DOMAIN store /\ store[sid].data.t # "none"
                /\ fault # "transformed_error"
        THEN [ entry |-> ResultEntry(record.messageId, TRUE, TRUE,
                                     <<"Already transformed">>, "", ""),
               store |-> store, posted |-> {},
               calls |-> <<Call("get_transformed", sid, "found")>> ]
        ELSE LET probe == IF fault = "transformed_error" THEN "error" ELSE "not_found"
             IN  IF fault = "staged_error" \/ sid \notin DOMAIN StagedStore
                 THEN failure("staged snapshot not readable",
                              <<Call("get_transformed", sid, probe),
                                Call("get_staged", sid, "raised")>>)
                 ELSE LET made == <<Call("get_transformed", sid, probe),
                                    Call("get_staged", sid, "ok")>>
                      IN  IF "transform_record" \notin TransformerAttrs
                          THEN failure("AttributeError: transform_record", made)
                          ELSE AfterTransform(record, sid, store,
                                   transform_record(HandlerConfig,
                                       load_mapping_files(HandlerConfig, HandlerEnv),
                                       StagedStore[sid]),
                                   made \o <<Call("transform_record", sid, "returned")>>)

\* _process_record without the test of line 124: a record_id that lacks an
\* identifier goes on to the staged fetch.
process_record_NoIdCheck(record, fault, store) ==
    LET ocid == record.body.change.record_id.ocid
        bid == record.body.change.record_id.bid
        sid == SnapshotId(ocid, bid)
        failure(error, made) ==
            [ entry |-> ResultEntry(record.messageId, FALSE, FALSE, <<>>, error, ""),
              store |-> store, posted |-> {}, calls |-> made ]
    IN  IF ~record.body.json
        THEN failure("JSONDecodeError", <<>>)
        ELSE IF ~record.body.has_change
        THEN failure("No change event found in message", <<>>)
        ELSE IF ~record.body.has_record_id
        THEN failure("No record_id found in change event", <<>>)
        ELSE IF fault = "staged_error" \/ sid \notin DOMAIN StagedStore
        THEN failure("staged snapshot not readable",
                     <<Call("get_staged", sid, "raised")>>)
        ELSE IF store[sid].data.t # "none" /\ fault # "transformed_error"
        THEN [ entry |-> ResultEntry(record.messageId, TRUE, TRUE,
                                     <<"Already transformed">>, "", ""),
               store |-> store, posted |-> {},
               calls |-> <<Call("get_staged", sid, "ok"),
                           Call("get_transformed", sid, "found")>> ]
        ELSE LET probe == IF fault = "transformed_error" THEN "error" ELSE "not_found"
                 made == <<Call("get_staged", sid, "ok"),
                           Call("get_transformed", sid, probe)>>
             IN  IF "transform_record" \notin TransformerAttrs
                 THEN failure("AttributeError: transform_record", made)
                 ELSE AfterTransform(record, sid, store,
                          transform_record(HandlerConfig,
                              load_mapping_files(HandlerConfig, HandlerEnv),
                              StagedStore[sid]),
                          made \o <<Call("transform_record", sid, "returned")>>)

\* _process_record (lines 106-203) on one SQS record, against the store:
\* [entry, store, posted, calls].  Every exception ends in the failure entry
\* of lines 197-203.
process_record(record, fault, store) ==
    LET ocid == record.body.change.record_id.ocid
        bid == record.body.change.record_id.bid
        sid == SnapshotId(ocid, bid)
        failure(error, made) ==
            [ entry |-> ResultEntry(record.messageId, FALSE, FALSE, <<>>, error, ""),
              store |-> store, posted |-> {}, calls |-> made ]
    IN  IF ~record.body.json
        THEN failure("JSONDecodeError", <<>>)
        ELSE IF ~record.body.has_change
        THEN failure("No change event found in message", <<>>)
        ELSE IF ~record.body.has_record_id
        THEN failure("No record_id found in change event", <<>>)
        ELSE IF ocid = "" \/ bid = ""
        THEN failure("Invalid record_id: missing ocid or bid", <<>>)
        ELSE IF fault = "staged_error" \/ sid \notin DOMAIN StagedStore
        THEN failure("staged snapshot not readable",
                     <<Call("get_staged", sid, "raised")>>)
        ELSE IF store[sid].data.t # "none" /\ fault # "transformed_error"
        THEN [ entry |-> ResultEntry(record.messageId, TRUE, TRUE,
                                     <<"Already transformed">>, "", ""),
               store |-> store, posted |-> {},
               calls |-> <<Call("get_staged", sid, "ok"),
                           Call("get_transformed", sid, "found")>> ]
        ELSE LET probe == IF fault = "transformed_error" THEN "error" ELSE "not_found"
                 made == <<Call("get_staged", sid, "ok"),
                           Call("get_transformed", sid, probe)>>
             IN  IF "transform_record" \notin TransformerAttrs
                 THEN failure("AttributeError: transform_record", made)
                 ELSE AfterTransform(record, sid, store,
                          transform_record(HandlerConfig,
                              load_mapping_files(HandlerConfig, HandlerEnv),
                              StagedStore[sid]),
                          made \o <<Call("transform_record", sid, "returned")>>)

\* _initialize constructing the bus, the configuration and the Transformer
\* on every call, whatever _initialized says.
initialize_Always(h, init_fault) ==
    IF init_fault = "bus"
    THEN [handler |-> h, raised |-> TRUE, made |-> <<"DataPipelineBus">>]
    ELSE IF init_fault = "config"
    THEN [handler |-> [h EXCEPT !.bus = "bus"], raised |-> TRUE,
          made |-> <<"DataPipelineBus", "DataPipelineConfig">>]
    ELSE IF init_fault = "transformer"
    THEN [handler |-> [h EXCEPT !.bus = "bus", !.config = "config"], raised |-> TRUE,
          made |-> <<"DataPipelineBus", "DataPipelineConfig", "Transformer">>]
    ELSE [handler |-> [bus |-> "bus", config |-> "config",
                       transformer |-> "transformer", initialized |-> TRUE],
          raised |-> "data_registry_id" \notin HandlerModuleNames,
          made |-> <<"DataPipelineBus", "DataPipelineConfig", "Transformer">>]

\* _initialize (lines 30-53): [handler, raised, made].  init_fault names the
\* constructor that fails, if any; made lists the constructors called.  The
\* log call of line 49 evaluates the name data_registry_id after
\* _initialized is set.
initialize(h, init_fault) ==
    IF h.initialized
    THEN [handler |-> h, raised |-> FALSE, made |-> <<>>]
    ELSE IF init_fault = "bus"
    THEN [handler |-> h, raised |-> TRUE, made |-> <<"DataPipelineBus">>]
    ELSE IF init_fault = "config"
    THEN [handler |-> [h EXCEPT !.bus = "bus"], raised |-> TRUE,
          made |-> <<"DataPipelineBus", "DataPipelineConfig">>]
    ELSE IF init_fault = "transformer"
    THEN [handler |-> [h EXCEPT !.bus = "bus", !.config = "config"], raised |-> TRUE,
          made |-> <<"DataPipelineBus", "DataPipelineConfig", "Transformer">>]
    ELSE [handler |-> [bus |-> "bus", config |-> "config",
                       transformer |-> "transformer", initialized |-> TRUE],
          raised |-> "data_registry_id" \notin HandlerModuleNames,
          made |-> <<"DataPipelineBus", "DataPipelineConfig", "Transformer">>]

InitFaults == {"none", "bus", "config", "transformer"}

NoResponse ==
    [statusCode |-> 0, total |-> 0, successful |-> 0, failed |-> 0, results |-> <<>>]

\* The report of lines 74-94.
Report(entries) ==
    LET successful == Cardinality({i \in DOMAIN entries : entries[i].success})
    IN  [ statusCode |-> 200, total |-> Len(entries), successful |-> successful,
          failed |-> Len(entries) - successful, results |-> entries ]

\* The batch-level error response of lines 96-104.
ErrorResponse ==
    [statusCode |-> 500, total |-> 0, successful |-> 0, failed |-> 0, results |-> <<>>]

\* process_record_added_event acting on every record_added event, whatever
\* its stage.
process_record_added_event_AnyStage(change_event, fault, staged, store) ==
    LET sid == change_event.sid
        fetched == <<Call("get_change_event", sid, "ok")>>
    IN  IF change_event.event # "record_added"
        THEN [ store |-> store, posted |-> {}, raised |-> FALSE, calls |-> fetched,
               result |-> NoResult ]
        ELSE IF fault = "staged_error"
        THEN [ store |-> store, posted |-> {}, raised |-> TRUE,
               calls |-> fetched \o <<Call("get_staged", sid, "raised")>>,
               result |-> NoResult ]
        ELSE LET r == transform_record(HandlerConfig,
                          load_mapping_files(HandlerConfig, HandlerEnv), staged)
                 made == fetched \o <<Call("get_staged", sid, "ok"),
                                      Call("transform_record", sid, "returned")>>
             IN  IF r.success /\ ~r.skipped
                 THEN [ store |-> [store EXCEPT ![sid] =
                                      [data |-> r.transformed_data, metadata |-> Metadata]],
                        posted |-> {sid}, raised |-> FALSE,
                        calls |-> made \o <<PostCall(sid, Metadata, r.transformed_data)>>,
                        result |-> r ]
                 ELSE [ store |-> store, posted |-> {}, raised |-> ~r.skipped,
                        calls |-> made, result |-> r ]

\* process_record_added_event storing whatever a successful result carries,
\* skipped or not.
process_record_added_event_WriteSkipped(change_event, fault, staged, store) ==
    LET sid == change_event.sid
        fetched == <<Call("get_change_event", sid, "ok")>>
    IN  IF ~(change_event.event = "record_added" /\ change_event.stage = "staged")
        THEN [ store |-> store, posted |-> {}, raised |-> FALSE, calls |-> fetched,
               result |-> NoResult ]
        ELSE IF fault = "staged_error"
        THEN [ store |-> store, posted |-> {}, raised |-> TRUE,
               calls |-> fetched \o <<Call("get_staged", sid, "raised")>>,
               result |-> NoResult ]
        ELSE LET r == transform_record(HandlerConfig,
                          load_mapping_files(HandlerConfig, HandlerEnv), staged)
                 made == fetched \o <<Call("get_staged", sid, "ok"),
                                      Call("transform_record", sid, "returned")>>
             IN  IF r.success
                 THEN [ store |-> [store EXCEPT ![sid] =
                                      [data |-> r.transformed_data, metadata |-> Metadata]],
                        posted |-> {sid}, raised |-> FALSE,
                        calls |-> made \o <<PostCall(sid, Metadata, r.transformed_data)>>,
                        result |-> r ]
                 ELSE [ store |-> store, posted |-> {}, raised |-> TRUE,
                        calls |-> made, result |-> r ]

\* Transformer.process_record_added_event (transformer.py 26-84) for the
\* change event of the environment and the staged payload the bus returns:
\* [store, posted, raised, calls, result].
process_record_added_event(change_event, fault, staged, store) ==
    LET sid == change_event.sid
        fetched == <<Call("get_change_event", sid, "ok")>>
    IN  IF ~(change_event.event = "record_added" /\ change_event.stage = "staged")
        THEN [ store |-> store, posted |-> {}, raised |-> FALSE, calls |-> fetched,
               result |-> NoResult ]
        ELSE IF fault = "staged_error"
        THEN [ store |-> store, posted |-> {}, raised |-> TRUE,
               calls |-> fetched \o <<Call("get_staged", sid, "raised")>>,
               result |-> NoResult ]
        ELSE LET r == transform_record(HandlerConfig,
                          load_mapping_files(HandlerConfig, HandlerEnv), staged)
                 made == fetched \o <<Call("get_staged", sid, "ok"),
                                      Call("transform_record", sid, "returned")>>
             IN  IF r.success /\ ~r.skipped
                 THEN [ store |-> [store EXCEPT ![sid] =
                                      [data |-> r.transformed_data, metadata |-> Metadata]],
                        posted |-> {sid}, raised |-> FALSE,
                        calls |-> made \o <<PostCall(sid, Metadata, r.transformed_data)>>,
                        result |-> r ]
                 ELSE [ store |-> store, posted |-> {}, raised |-> ~r.skipped,
                        calls |-> made, result |-> r ]

\* The change events the orchestration can set: the actionable one and the
\* other combinations (bundle_ready / parsed is the one of
\* test_process_unexpected_event).
ChangeEvents ==
    { [event |-> e[1], stage |-> e[2], sid |-> sid] :
        e \in { <<"record_added", "staged">>, <<"record_added", "parsed">>,
                <<"bundle_ready", "staged">>, <<"bundle_ready", "parsed">> },
        sid \in Sids }

\* Staged payloads the bus can return to a run: one that transforms, one a
\* skip condition skips, and a JSON list, on which the skip conditions raise.
CliRecords ==
    { Staged(Str(<<"X">>), Str(<<"1">>)), Staged(Str(<<>>), Str(<<"1">>)),
      [t |-> "list", d |-> <<>>] }

\* What an invocation that returned a report did, per SnapshotId: fresh holds
\* the ids whose first record found the staged payload and no transformed
\* snapshot, wrote those it called post_snapshot_json for.
Summary(batch_calls) ==
    [ fresh |-> { sid \in Sids :
                    \E i \in DOMAIN batch_calls :
                        /\ Len(batch_calls[i]) >= 2
                        /\ batch_calls[i][2] = Call("get_transformed", sid, "not_found")
                        /\ \A j \in 1..(i - 1) :
                              batch_calls[j] = <<>> \/ batch_calls[j][1].sid # sid },
      wrote |-> { sid \in Sids :
                    \E i \in DOMAIN batch_calls : \E k \in DOMAIN batch_calls[i] :
                        /\ batch_calls[i][k].op = "post_snapshot_json"
                        /\ batch_calls[i][k].sid = sid } ]

\* The loop of lines 61-72 as a whole, from a given store: the entries of the
\* records in order and the store left behind.
RECURSIVE HandleBatch(_, _, _, _)
HandleBatch(records, record_faults, store, entries) ==
    IF records = <<>>
    THEN [entries |-> entries, store |-> store]
    ELSE LET done == process_record(Head(records), Head(record_faults), store)
         IN  HandleBatch(Tail(records), Tail(record_faults), done.store,
                         Append(entries, done.entry))

EmptyStore == [sid \in Sids |-> [data |-> NoData, metadata |-> NoMetadata]]

\* Two handler instances (two Lambda execution environments), each with its
\* own module-level _handler, against the one store.
Handlers == {1, 2}

NoEntry == ResultEntry(0, FALSE, FALSE, <<>>, "", "")

\* No handler instance is inside _process_record.
WorkersIdle ==
    workers = [w \in Handlers |->
                 [pc |-> "idle", record |-> Notification(0, "", "", "", "", "change"),
                  calls |-> <<>>, entry |-> NoEntry]]

-----------------------------------------------------------------------------
(* The service as a state machine *)

HandlerInit ==
    /\ handler = [bus |-> "None", config |-> "None", transformer |-> "None",
                  initialized |-> FALSE]
    /\ transformed = EmptyStore
    /\ post_count = [sid \in Sids |-> 0]
    /\ cli_posts = [sid \in Sids |-> 0]
    /\ pc = "idle"
    /\ event = <<>>
    /\ faults = <<>>
    /\ results = <<>>
    /\ response = NoResponse
    /\ calls = <<>>
    /\ init_raised = FALSE
    /\ init_calls = <<>>
    /\ entry_store = EmptyStore
    /\ prev = [fresh |-> {}, wrote |-> {}]

EngineIdle ==
    /\ config = HandlerConfig
    /\ env = HandlerEnv
    /\ engine = [state |-> "unbuilt", mapping_data |-> <<>>]
    /\ staged_data = NoData
    /\ result = NoResult
    /\ created = <<>>

Init == HandlerInit /\ EngineIdle /\ StrategyIdle /\ CliIdle /\ WorkersIdle

\* handle_sqs_event is entered with an event: _initialize runs, and when it
\* raises the invocation ends in the batch-level error response.
Invoke ==
    /\ pc = "idle"
    /\ \E ev \in Events :
       \E init_fault \in (IF handler.initialized THEN {"none"} ELSE InitFaults) :
          LET init == initialize(handler, init_fault)
          IN  /\ handler' = init.handler
              /\ init_raised' = init.raised
              /\ init_calls' = init.made
              /\ event' = ev
              /\ pc' = IF init.raised THEN "done" ELSE "loop"
              /\ response' = IF init.raised THEN ErrorResponse ELSE NoResponse
    /\ entry_store' = transformed
    /\ UNCHANGED <<transformed, post_count, cli_posts, faults, results, calls, prev,
                   engine_vars, strategy_vars, cli_vars, concurrent_vars>>

\* The outcomes the pipeline bus can have for a record: it is called only for
\* a record whose body carries both identifiers.
FaultsFor(record) ==
    IF /\ record.body.json /\ record.body.has_change /\ record.body.has_record_id
       /\ record.body.change.record_id.ocid # ""
       /\ record.body.change.record_id.bid # ""
    THEN Faults
    ELSE {"none"}

\* A loop that stops at the first record that fails.
HandleRecord_StopAtFailure ==
    /\ pc = "loop"
    /\ Len(results) < Len(event)
    /\ \E fault \in FaultsFor(event[Len(results) + 1]) :
          LET done == process_record(event[Len(results) + 1], fault, transformed)
          IN  /\ results' = Append(results, done.entry)
              /\ transformed' = done.store
              /\ post_count' = [sid \in Sids |->
                                  post_count[sid] + (IF sid \in done.posted THEN 1 ELSE 0)]
              /\ calls' = Append(calls, done.calls)
              /\ faults' = Append(faults, fault)
              /\ pc' = IF done.entry.success THEN "loop" ELSE "done"
              /\ response' = IF done.entry.success THEN response
                             ELSE Report(Append(results, done.entry))
    /\ UNCHANGED <<handler, cli_posts, event, init_raised, init_calls, entry_store, prev,
                   engine_vars, strategy_vars, cli_vars, concurrent_vars>>

\* One iteration of the loop of lines 62-72 over the next record of the event.
HandleRecord ==
    /\ pc = "loop"
    /\ Len(results) < Len(event)
    /\ \E fault \in FaultsFor(event[Len(results) + 1]) :
          LET done == process_record(event[Len(results) + 1], fault, transformed)
          IN  /\ results' = Append(results, done.entry)
              /\ transformed' = done.store
              /\ post_count' = [sid \in Sids |->
                                  post_count[sid] + (IF sid \in done.posted THEN 1 ELSE 0)]
              /\ calls' = Append(calls, done.calls)
              /\ faults' = Append(faults, fault)
    /\ UNCHANGED <<handler, cli_posts, pc, event, response, init_raised, init_calls, entry_store,
                   prev, engine_vars, strategy_vars, cli_vars, concurrent_vars>>

\* A handler that answers with the batch-level error when a record failed.
Return_ErrorOnFailure ==
    /\ pc = "loop"
    /\ Len(results) = Len(event)
    /\ response' = IF \E i \in DOMAIN results : ~results[i].success
                   THEN ErrorResponse
                   ELSE Report(results)
    /\ pc' = "done"
    /\ UNCHANGED <<handler, transformed, post_count, cli_posts, event, faults,
                   results, calls, init_raised, init_calls, entry_store, prev, engine_vars, strategy_vars, cli_vars, concurrent_vars>>

\* The loop is over: the report of lines 74-94 is returned.
Return ==
    /\ pc = "loop"
    /\ Len(results) = Len(event)
    /\ response' = Report(results)
    /\ pc' = "done"
    /\ UNCHANGED <<handler, transformed, post_count, cli_posts, event, faults,
                   results, calls, init_raised, init_calls, entry_store, prev, engine_vars, strategy_vars, cli_vars, concurrent_vars>>

\* The runtime has taken the response; the module-level handler instance
\* (line 207) stays as it is and waits for the next event.
Reset ==
    /\ pc = "done"
    /\ pc' = "idle"
    /\ prev' = IF response.statusCode = 200 THEN Summary(calls) ELSE prev
    /\ event' = <<>>
    /\ faults' = <<>>
    /\ results' = <<>>
    /\ calls' = <<>>
    /\ response' = NoResponse
    /\ init_raised' = FALSE
    /\ init_calls' = <<>>
    /\ entry_store' = EmptyStore
    /\ UNCHANGED <<handler, transformed, post_count, cli_posts, engine_vars, strategy_vars, cli_vars, concurrent_vars>>

\* A run of the command line entry point (main_async, main.py 394-398):
\* Transformer.process_record_added_event on the change event of the run.
CliRun ==
    /\ pc = "idle"
    /\ \E change_event \in ChangeEvents : \E fault \in {"none", "staged_error"} :
          LET done == process_record_added_event(change_event, fault,
                                                 StagedStore[change_event.sid], transformed)
          IN  /\ \A sid \in done.posted : cli_posts[sid] < MaxCliPosts
              /\ transformed' = done.store
              /\ cli_posts' = [sid \in Sids |->
                                 cli_posts[sid] + (IF sid \in done.posted THEN 1 ELSE 0)]
    /\ UNCHANGED <<handler, post_count, pc, event, faults, results, response, calls,
                   init_raised, init_calls, entry_store, prev, engine_vars, strategy_vars, cli_vars, concurrent_vars>>

Next == Invoke \/ HandleRecord \/ Return \/ Reset \/ CliRun

Spec == Init /\ [][Next]_vars

-----------------------------------------------------------------------------
(* The command line path on its own as a state machine *)

\* One run of process_record_added_event: the orchestration sets the change
\* event, the bus answers the staged fetch with a payload or an error.
CliProcess ==
    /\ \E change_event \in ChangeEvents : \E fault \in {"none", "staged_error"} :
       \E staged \in CliRecords :
          LET done == process_record_added_event(change_event, fault, staged, transformed)
          IN  /\ \A sid \in done.posted : cli_posts[sid] < MaxCliPosts
              /\ transformed' = done.store
              /\ cli_posts' = [sid \in Sids |->
                                 cli_posts[sid] + (IF sid \in done.posted THEN 1 ELSE 0)]
              /\ cli_run' = [ ran |-> TRUE, change_event |-> change_event,
                              fault |-> fault, raised |-> done.raised,
                              calls |-> done.calls, result |-> done.result ]
    /\ UNCHANGED <<handler, post_count, pc, event, faults, results, response, calls,
                   init_raised, init_calls, entry_store, prev, engine_vars, strategy_vars,
                   concurrent_vars>>

CliNext == CliProcess

SpecCli == Init /\ [][CliNext]_vars

-----------------------------------------------------------------------------
(* Handler instances running _process_record concurrently *)

\* Lines 108-134 in instance w: the body of a notification for sid is parsed
\* and its identifiers read; nothing of the store is touched.
ProcessRecord_Parse(w) ==
    /\ workers[w].pc = "idle"
    /\ \E sid \in Sids :
          workers' = [workers EXCEPT ![w] =
                         [pc |-> "parsed",
                          record |-> Notification(w, sid[1], sid[2], "record_added",
                                                  "staged", ""),
                          calls |-> <<>>, entry |-> NoEntry]]
    /\ UNCHANGED <<engine_vars, handler_vars, strategy_vars, cli_vars>>

\* Line 137 in instance w: the staged payload is fetched, or the fetch raises
\* and the record ends in the failure entry of lines 197-203.
ProcessRecord_GetStaged(w) ==
    /\ workers[w].pc = "parsed"
    /\ LET record == workers[w].record
           sid == SnapshotId(record.body.change.record_id.ocid,
                             record.body.change.record_id.bid)
       IN  \E fault \in {"none", "staged_error"} :
              workers' = [workers EXCEPT ![w] =
                  IF fault = "staged_error"
                  THEN [pc |-> "done", record |-> record,
                        calls |-> <<Call("get_staged", sid, "raised")>>,
                        entry |-> ResultEntry(record.messageId, FALSE, FALSE, <<>>,
                                              "staged snapshot not readable", "")]
                  ELSE [pc |-> "fetched", record |-> record,
                        calls |-> <<Call("get_staged", sid, "ok")>>,
                        entry |-> NoEntry]]
    /\ UNCHANGED <<engine_vars, handler_vars, strategy_vars, cli_vars>>

\* Lines 140-151 in instance w: the transformed stage is read as it is now; a
\* snapshot found ends the record as already transformed, not-found or any
\* other error lets it go on.
ProcessRecord_GetTransformed(w) ==
    /\ workers[w].pc = "fetched"
    /\ LET record == workers[w].record
           sid == SnapshotId(record.body.change.record_id.ocid,
                             record.body.change.record_id.bid)
       IN  \E fault \in {"none", "transformed_error"} :
              workers' = [workers EXCEPT ![w] =
                  IF transformed[sid].data.t # "none" /\ fault = "none"
                  THEN [pc |-> "done", record |-> record,
                        calls |-> Append(workers[w].calls,
                                         Call("get_transformed", sid, "found")),
                        entry |-> ResultEntry(record.messageId, TRUE, TRUE,
                                              <<"Already transformed">>, "", "")]
                  ELSE [pc |-> "checked", record |-> record,
                        calls |-> Append(workers[w].calls,
                                     Call("get_transformed", sid,
                                          IF fault = "none" THEN "not_found" ELSE "error")),
                        entry |-> NoEntry]]
    /\ UNCHANGED <<engine_vars, handler_vars, strategy_vars, cli_vars>>

\* Lines 153-203 in instance w: the engine call and, on a transformed
\* result, the write to the store as it is now.
ProcessRecord_Transform(w) ==
    /\ workers[w].pc = "checked"
    /\ LET record == workers[w].record
           sid == SnapshotId(record.body.change.record_id.ocid,
                             record.body.change.record_id.bid)
           done == IF "transform_record" \notin TransformerAttrs
                   THEN [ entry |-> ResultEntry(record.messageId, FALSE, FALSE, <<>>,
                                                "AttributeError: transform_record", ""),
                          store |-> transformed, posted |-> {},
                          calls |-> workers[w].calls ]
                   ELSE AfterTransform(record, sid, transformed,
                            transform_record(HandlerConfig,
                                load_mapping_files(HandlerConfig, HandlerEnv),
                                StagedStore[sid]),
                            Append(workers[w].calls,
                                   Call("transform_record", sid, "returned")))
       IN  /\ workers' = [workers EXCEPT ![w] =
                             [pc |-> "done", record |-> record,
                              calls |-> done.calls, entry |-> done.entry]]
           /\ transformed' = done.store
           /\ post_count' = [s \in Sids |->
                               post_count[s] + (IF s \in done.posted THEN 1 ELSE 0)]
    /\ UNCHANGED <<handler, cli_posts, pc, event, faults, results, response, calls,
                   init_raised, init_calls, entry_store, prev, engine_vars, strategy_vars, cli_vars>>

ConcurrentNext ==
    \/ \E w \in Handlers :
          \/ ProcessRecord_Parse(w)
          \/ ProcessRecord_GetStaged(w)
          \/ ProcessRecord_GetTransformed(w)
          \/ ProcessRecord_Transform(w)
    \/ CliRun

SpecConcurrent == Init /\ [][ConcurrentNext]_vars

-----------------------------------------------------------------------------
(* The engine as a state machine *)

EngineInit ==
    /\ config \in Configs
    /\ env \in Envs
    /\ engine = [state |-> "unbuilt", mapping_data |-> <<>>]
    /\ staged_data = NoData
    /\ result = NoResult
    /\ created = <<>>
    /\ HandlerInit
    /\ StrategyIdle
    /\ CliIdle
    /\ WorkersIdle

\* TransformEngine.__init__
EngineConstruct ==
    /\ engine.state = "unbuilt"
    /\ engine' = [state |-> "built",
                  mapping_data |-> load_mapping_files(config, env)]
    /\ UNCHANGED <<config, env, staged_data, result, created, handler_vars, strategy_vars, cli_vars, concurrent_vars>>

\* An engine that keeps the output mapping of the previous record and adds
\* the fields of the next one to it.
EngineTransform_KeepsOutput ==
    /\ engine.state = "built"
    /\ \E data \in StagedRecords :
          LET run == TransformRun(config, engine.mapping_data, data)
              kept == IF result.transformed_data.t = "dict"
                      THEN result.transformed_data.d ELSE <<>>
              fresh == run.result.transformed_data.d
          IN  /\ staged_data' = data
              /\ result' = IF run.result.success /\ ~run.result.skipped
                            THEN SuccessResult([n \in DOMAIN kept \cup DOMAIN fresh |->
                                                  IF n \in DOMAIN fresh THEN fresh[n]
                                                  ELSE kept[n]])
                            ELSE run.result
              /\ created' = run.created
    /\ UNCHANGED <<config, env, engine, handler_vars, strategy_vars, cli_vars, concurrent_vars>>

\* TransformEngine.transform_record on one staged record: self.config and
\* self.mapping_data are only read, the record is only read through get().
EngineTransform ==
    /\ engine.state = "built"
    /\ \E data \in StagedRecords :
          LET run == TransformRun(config, engine.mapping_data, data)
          IN  /\ staged_data' = data
              /\ result' = run.result
              /\ created' = run.created
    /\ UNCHANGED <<config, env, engine, handler_vars, strategy_vars, cli_vars, concurrent_vars>>

EngineNext == EngineConstruct \/ EngineTransform

SpecEngine == EngineInit /\ [][EngineNext]_vars

-----------------------------------------------------------------------------
(* A strategy on its own as a state machine *)

StrategyUnitInit == StrategyInit /\ EngineIdle /\ HandlerInit /\ CliIdle /\ WorkersIdle

StrategyNext == StrategyApply

SpecStrategy == StrategyUnitInit /\ [][StrategyNext]_vars

-----------------------------------------------------------------------------
(* Claims about transform_record, checked under SpecEngine *)

\* transform_record has returned for the staged record in staged_data.
Returned == staged_data # NoData

CaseTransformed(r) ==
    r.success /\ ~r.skipped /\ r.transformed_data.t = "dict"

CaseSkipped(r) ==
    r.success /\ r.skipped /\ r.skip_reason.t = "str" /\ r.transformed_data.t = "none"

CaseFailed(r) ==
    ~r.success /\ r.error_message.t = "str" /\ r.transformed_data.t = "none"

\* C6: every TransformationResult that transform_record returns is in exactly
\* one of the three cases: transformed (success, not skipped, a mapping
\* present), skipped (success, skipped, a skip_reason, no mapping) or failed
\* (no success, an error_message, no mapping).
C6_ExactlyOneCase ==
    Returned =>
        Cardinality({ c \in {"a", "b", "c"} :
            \/ c = "a" /\ CaseTransformed(result)
            \/ c = "b" /\ CaseSkipped(result)
            \/ c = "c" /\ CaseFailed(result) }) = 1

\* A record-level failure was returned (the rarest of the three cases).
C6_Witness == Returned /\ CaseFailed(result)

\* The staged record lacks the field, or holds a falsy value, or a string that
\* is empty once trimmed.
BlankInRecord(data, field) ==
    \/ field \notin DOMAIN data.d
    \/ ~Truthy(data.d[field])
    \/ data.d[field].t = "str" /\ Strip(data.d[field].s) = <<>>

\* The indexes of the blank conditions of the configuration that name a field
\* which is blank in the staged record.
BlankHits(cfg, data) ==
    { i \in DOMAIN cfg.validation_rules.skip_conditions :
        LET c == cfg.validation_rules.skip_conditions[i]
        IN  c.operator = "blank" /\ c.field # "" /\ BlankInRecord(data, c.field) }

FirstOf(S) == CHOOSE i \in S : \A j \in S : i <= j

\* C7: when some skip condition with operator "blank" names a field that is
\* absent, falsy or whitespace-only in the staged record, transform_record
\* returns success and skipped with the reason "Field <name> is blank" for
\* the first such condition in declared order, and instantiates no strategy.
C7_BlankSkips ==
    (/\ Returned
     /\ staged_data.t = "dict"
     /\ config.validation_rules.t = "dict"
     /\ BlankHits(config, staged_data) # {})
    => LET first == config.validation_rules.skip_conditions[
                        FirstOf(BlankHits(config, staged_data))]
       IN  /\ result.success
           /\ result.skipped
           /\ result.skip_reason = Text(<<"Field", first.field, "is blank">>)
           /\ result.transformed_data.t = "none"
           /\ created = <<>>

\* A record skipped on its second declared condition, over a schema that has
\* fields to evaluate.
C7_Witness ==
    /\ Returned
    /\ staged_data.t = "dict"
    /\ config.validation_rules.t = "dict"
    /\ BlankHits(config, staged_data) # {}
    /\ FirstOf(BlankHits(config, staged_data)) = 2
    /\ config.company.t = "dict"
    /\ Len(config.company.items) > 0
    /\ result.skipped

\* A string that is empty or holds whitespace only.
BlankText(v) == v.t = "str" /\ Strip(v.s) = <<>>

\* The field specification fails in strategy instantiation or invocation: it
\* is no mapping, or the registry raises for its transformation_logic.
FieldFails(spec, mapping_data) ==
    \/ spec.t # "dict"
    \/ /\ spec.transformation_logic # ""
       /\ create_strategy(spec.transformation_logic, spec, mapping_data).raised

\* transform_record reaches the per-field loop: no record-level exception and
\* no skip condition met.
ReachesFields(cfg, data) ==
    /\ cfg.company.t = "dict"
    /\ ~should_skip_record(cfg, data).raised
    /\ ~should_skip_record(cfg, data).skip

\* C8: when the strategy of a field cannot be instantiated or invoked,
\* transform_record returns success and the field is absent from
\* transformed_data, whatever the staged record holds for its input_source.
C8_FailedFieldAbsent ==
    (Returned /\ ReachesFields(config, staged_data)) =>
        \A i \in DOMAIN config.company.items :
            FieldFails(config.company.items[i].spec, engine.mapping_data) =>
                /\ result.success
                /\ config.company.items[i].name \notin DOMAIN result.transformed_data.d

RemoveAt(seq, i) == SubSeq(seq, 1, i - 1) \o SubSeq(seq, i + 1, Len(seq))

WithoutField(cfg, i) ==
    [cfg EXCEPT !.company.items = RemoveAt(cfg.company.items, i)]

Others(mapping, name) == [n \in DOMAIN mapping \ {name} |-> mapping[n]]

\* C9: when one field fails, every other field's entry in transformed_data is
\* what transform_record yields for the schema without the failing field.
C9_FieldIsolation ==
    (Returned /\ ReachesFields(config, staged_data)) =>
        \A i \in DOMAIN config.company.items :
            FieldFails(config.company.items[i].spec, engine.mapping_data) =>
                /\ CaseTransformed(result)
                /\ Others(result.transformed_data.d, config.company.items[i].name)
                   = transform_record(WithoutField(config, i), engine.mapping_data,
                                      staged_data).transformed_data.d

\* The first field failed and the second one produced its value.
C9_Witness ==
    /\ Returned
    /\ CaseTransformed(result)
    /\ Len(config.company.items) = 2
    /\ FieldFails(config.company.items[1].spec, engine.mapping_data)
    /\ config.company.items[2].name \in DOMAIN result.transformed_data.d

\* The field specification lacks a parameter its strategy requires.
MissingParameter(spec) ==
    /\ spec.t = "dict"
    /\ spec.transformation_logic \in Registered
    /\ FactoryValidate(spec.transformation_logic, spec) # ""

HasMissingParameter(cfg) ==
    /\ cfg.company.t = "dict"
    /\ \E i \in DOMAIN cfg.company.items : MissingParameter(cfg.company.items[i].spec)

\* C10: a configuration with a field specification that lacks a required
\* strategy parameter is refused at engine construction, so no engine built
\* from it ever processes a record.
C10_MissingParameterFatal ==
    HasMissingParameter(config) => engine.state # "built" /\ ~Returned

\* The value the field's input_source names in the staged record.
InputOf(spec, data) ==
    IF spec.input_source # "" THEN DictGet(data, spec.input_source) ELSE None

\* The strategy of the field is created and its transform yields None.
YieldsNone(spec, data, mapping_data) ==
    /\ spec.t = "dict"
    /\ spec.transformation_logic # ""
    /\ data.t = "dict"
    /\ ~create_strategy(spec.transformation_logic, spec, mapping_data).raised
    /\ StrategyTransform(create_strategy(spec.transformation_logic, spec,
                                         mapping_data).strategy,
                         InputOf(spec, data)) = None

NoLogic(spec) == spec.t = "dict" /\ spec.transformation_logic = ""

\* C11: the transformed_data of a successful, non-skipped transform_record is
\* sparse: every key is a target field name of the schema, no key maps to
\* None, a field whose strategy yields None is omitted, and a field spec
\* without transformation_logic contributes no key.
C11_SparseOutput ==
    (Returned /\ CaseTransformed(result)) =>
        LET out == result.transformed_data.d
            items == config.company.items
        IN  /\ \A k \in DOMAIN out :
                  /\ \E i \in DOMAIN items : items[i].name = k
                  /\ out[k] # None
            /\ \A i \in DOMAIN items :
                  (\/ NoLogic(items[i].spec)
                   \/ YieldsNone(items[i].spec, staged_data, engine.mapping_data))
                  => items[i].name \notin DOMAIN out

\* One field has no transformation_logic, the other one's strategy yields
\* None, and the record has a value the first could have taken.
C11_Witness ==
    /\ Returned
    /\ CaseTransformed(result)
    /\ Len(config.company.items) = 2
    /\ NoLogic(config.company.items[1].spec)
    /\ InputOf(config.company.items[1].spec, staged_data) # None
    /\ YieldsNone(config.company.items[2].spec, staged_data, engine.mapping_data)
    /\ result.transformed_data.d = <<>>

DirectField(spec) == spec.t = "dict" /\ spec.transformation_logic = "oc.direct_mapping"

FixedField(spec) ==
    /\ spec.t = "dict"
    /\ spec.transformation_logic = "oc.fixed_value"
    /\ "fixed_value" \in spec.keys

DirectAndFixedOnly(cfg) ==
    /\ cfg.company.t = "dict"
    /\ cfg.validation_rules.t = "dict"
    /\ cfg.company.items # <<>>
    /\ \A i \in DOMAIN cfg.company.items :
          DirectField(cfg.company.items[i].spec) \/ FixedField(cfg.company.items[i].spec)

\* The transformed_data of test_transform_record_success.
SuccessTestOutput ==
    [n \in {"company_number", "name", "jurisdiction_code"} |->
        CASE n = "company_number" -> Str(<<"1", "2", "3", "4", "5">>)
          [] n = "name" -> Str(<<"T", "e", "s", "t", " ", "C", "o", "m", "p", "a", "n", "y">>)
          [] OTHER -> Str(<<"u", "s", "_", "f", "l">>)]

\* C12: for a schema of oc.direct_mapping and oc.fixed_value fields and a
\* staged record that is not skipped, transformed_data holds for each
\* direct-mapping field the staged value of its input_source (no key when that
\* value is None) and for each fixed-value field its configured constant,
\* whatever the input; the record {COR_NUMBER: "12345", COR_NAME: "Test
\* Company"} yields {company_number: "12345", name: "Test Company",
\* jurisdiction_code: "us_fl"}.
C12_DirectAndFixed ==
    (/\ Returned
     /\ DirectAndFixedOnly(config)
     /\ staged_data.t = "dict"
     /\ ~should_skip_record(config, staged_data).skip)
    => LET out == result.transformed_data.d
           items == config.company.items
       IN  /\ CaseTransformed(result)
           /\ \A i \in DOMAIN items :
                 IF DirectField(items[i].spec)
                 THEN IF InputOf(items[i].spec, staged_data) = None
                      THEN items[i].name \notin DOMAIN out
                      ELSE /\ items[i].name \in DOMAIN out
                           /\ out[items[i].name] = InputOf(items[i].spec, staged_data)
                 ELSE /\ items[i].name \in DOMAIN out
                      /\ out[items[i].name] = items[i].spec.fixed_value
           /\ (config = SuccessTestConfig /\ staged_data = SuccessTestRecord)
                 => out = SuccessTestOutput

\* The record of the test under the schema of the test.
C12_Witness ==
    /\ Returned
    /\ config = SuccessTestConfig
    /\ staged_data = SuccessTestRecord
    /\ result.transformed_data.d = SuccessTestOutput

\* A lookup field bound to the table T.
LookupField(spec) ==
    /\ spec.t = "dict"
    /\ spec.transformation_logic = "oc.lookup_mapping_file"
    /\ "mapping_file" \in spec.keys
    /\ spec.mapping_file = TableName

\* C13: for a lookup field with mapping_file = T, when the table T was loaded
\* at construction and contains the input key k, transform_record outputs
\* T[k] for the field.
C13_LookupInNamedTable ==
    (Returned /\ ReachesFields(config, staged_data) /\ staged_data.t = "dict") =>
        \A i \in DOMAIN config.company.items :
            LET spec == config.company.items[i].spec
                key == Strip(PyStr(InputOf(spec, staged_data)))
            IN  (/\ LookupField(spec)
                 /\ TableName \in DOMAIN engine.mapping_data
                 /\ InputOf(spec, staged_data).t = "str"
                 /\ key \in DOMAIN engine.mapping_data[TableName])
                => /\ CaseTransformed(result)
                   /\ config.company.items[i].name \in DOMAIN result.transformed_data.d
                   /\ result.transformed_data.d[config.company.items[i].name]
                          = Str(engine.mapping_data[TableName][key])

\* The declared file of T is missing or malformed where the engine looks.
TableFileUnreadable ==
    env.config_dir_set /\ env.files[TableName].status \in {"missing", "malformed"}

\* C15: when a declared mapping file is missing or malformed, construction
\* still succeeds with that logical name absent from the loaded tables, and
\* every lookup field bound to that name passes its non-blank input through
\* unchanged with the record result success=true.
C15_MissingTablePassThrough ==
    TableFileUnreadable =>
        /\ engine.state = "built" => TableName \notin DOMAIN engine.mapping_data
        /\ (Returned /\ ReachesFields(config, staged_data) /\ staged_data.t = "dict") =>
              \A i \in DOMAIN config.company.items :
                  LET spec == config.company.items[i].spec
                      name == config.company.items[i].name
                      input == InputOf(spec, staged_data)
                  IN  (LookupField(spec) /\ input # None /\ ~BlankText(input)) =>
                          /\ result.success
                          /\ name \in DOMAIN result.transformed_data.d
                          /\ result.transformed_data.d[name] = input

\* An exception is raised in transform_record outside the per-field loop:
\* while the skip conditions are evaluated, or when the company schema is
\* read and is no mapping.
RecordLevelException(cfg, data) ==
    \/ should_skip_record(cfg, data).raised
    \/ /\ ~should_skip_record(cfg, data).skip
       /\ cfg.company.t # "dict"

\* A field of the schema raises inside the per-field loop, or its strategy
\* cannot be instantiated.
SomeFieldFails(cfg, data, mapping_data) ==
    /\ cfg.company.t = "dict"
    /\ \E i \in DOMAIN cfg.company.items :
          \/ FieldFails(cfg.company.items[i].spec, mapping_data)
          \/ apply_transformation(cfg.company.items[i].spec, data, mapping_data).raised

\* C24: transform_record always returns a result: success=false with an
\* error_message exactly when an exception occurs in the record-level logic
\* outside the per-field loop (skip conditions, reading the schema); a
\* per-field failure alone never yields success=false.
C24_FailureOnlyAtRecordLevel ==
    Returned =>
        /\ result.success \in BOOLEAN
        /\ ~result.success <=> RecordLevelException(config, staged_data)
        /\ ~result.success =>
              /\ result.error_message.t = "str"
              /\ result.error_message.text # <<>>
              /\ ~result.skipped
              /\ result.transformed_data = NoData
        /\ result.success => result.error_message = NoText
        /\ ( /\ SomeFieldFails(config, staged_data, engine.mapping_data)
             /\ ~RecordLevelException(config, staged_data) ) => result.success

\* The skip conditions raise on a staged payload that is no mapping, under a
\* schema with a field that fails as well: the result is the failure, with
\* its message.
C24_Witness ==
    /\ Returned
    /\ staged_data.t # "dict"
    /\ should_skip_record(config, staged_data).raised
    /\ SomeFieldFails(config, staged_data, engine.mapping_data)
    /\ ~result.success
    /\ result.error_message.t = "str"

\* C28: transform_record leaves the engine's configuration, its loaded
\* mapping tables and the caller's staged record unchanged, and the engine
\* holds no cross-record state: whatever was transformed before, the result
\* for a record is the one determined by the configuration, the tables loaded
\* at construction and that record, before the call and after it.
C28_NoCrossRecordState ==
    /\ [][ /\ config' = config
           /\ env' = env
           /\ engine.state = "built" => engine' = engine ]_vars
    /\ [](Returned =>
            LET run == TransformRun(config, engine.mapping_data, staged_data)
            IN  /\ engine.mapping_data = load_mapping_files(config, env)
                /\ result = run.result
                /\ created = run.created)

\* A record was transformed into a mapping with entries by an engine that
\* still holds the tables it loaded at construction.
C28_Witness ==
    /\ Returned
    /\ DOMAIN engine.mapping_data # {}
    /\ engine.mapping_data = load_mapping_files(config, env)
    /\ CaseTransformed(result)
    /\ DOMAIN result.transformed_data.d # {}
    /\ result = transform_record(config, engine.mapping_data, staged_data)

-----------------------------------------------------------------------------
(* Claims about the batch handler, checked under Spec *)

\* The invocation has returned its per-record report.
Reported == pc = "done" /\ response.statusCode = 200

\* The SnapshotId a record names; <<"", "">> when the body names none.
SidOf(record) ==
    IF record.body.json /\ record.body.has_change /\ record.body.has_record_id
    THEN SnapshotId(record.body.change.record_id.ocid,
                    record.body.change.record_id.bid)
    ELSE SnapshotId("", "")

\* What the engine returns for the staged record of sid.
EngineResult(sid) ==
    transform_record(HandlerConfig, load_mapping_files(HandlerConfig, HandlerEnv),
                     StagedStore[sid])

Transformable(sid) == EngineResult(sid).success /\ ~EngineResult(sid).skipped

PostsIn(record_calls, sid) ==
    { k \in DOMAIN record_calls :
        record_calls[k].op = "post_snapshot_json" /\ record_calls[k].sid = sid }

EngineCallsIn(record_calls) ==
    { k \in DOMAIN record_calls : record_calls[k].op = "transform_record" }

\* C1: over any sequence of batch-handler invocations against the same store
\* (redelivery, retry of a batch, the same SnapshotId twice in one batch) the
\* handler performs at most one post_snapshot_json write per SnapshotId.
C1_AtMostOneWrite == \A sid \in Sids : post_count[sid] <= 1

\* A SnapshotId the previous invocation met fresh is delivered again, twice in
\* the batch, with the store answering every call.
C1_Witness ==
    /\ Reported
    /\ \E sid \in prev.fresh : \E i, j \in DOMAIN event :
          /\ i < j
          /\ SidOf(event[i]) = sid /\ SidOf(event[j]) = sid
          /\ faults[i] = "none" /\ faults[j] = "none"
          /\ Transformable(sid)
          /\ post_count[sid] <= 1

\* C2: when the handler is invoked twice with the same notification for a
\* transformable staged record, the first invocation performs the store write
\* and the second performs none, does not call the engine, and reports the
\* record as success=true, skipped=true.
C2_SecondInvocationSkipped ==
    Reported =>
        \A i \in DOMAIN event :
            LET sid == SidOf(event[i])
            IN  (sid \in prev.fresh /\ Transformable(sid) /\ faults[i] = "none") =>
                    /\ sid \in prev.wrote
                    /\ PostsIn(calls[i], sid) = {}
                    /\ EngineCallsIn(calls[i]) = {}
                    /\ results[i].success /\ results[i].skipped

\* C3: for a notification with valid identifiers whose staged payload is
\* fetched, with no transformed snapshot yet and an engine result that is
\* success and not skipped, the handler calls post_snapshot_json exactly once
\* with the engine's transformed_data and the metadata transformed_at,
\* transformer_version, source_stage = "staged", and reports success=true.
C3_WriteOnSuccess ==
    \A i \in DOMAIN results :
        LET sid == SidOf(event[i])
        IN  ( /\ sid \in Sids
              /\ Len(calls[i]) >= 2
              /\ calls[i][1] = Call("get_staged", sid, "ok")
              /\ calls[i][2] = Call("get_transformed", sid, "not_found")
              /\ Transformable(sid) ) =>
                /\ Cardinality(PostsIn(calls[i], sid)) = 1
                /\ \A k \in PostsIn(calls[i], sid) :
                      /\ calls[i][k].data = EngineResult(sid).transformed_data
                      /\ calls[i][k].metadata.source_stage = "staged"
                      /\ calls[i][k].metadata.transformer_version # ""
                      /\ calls[i][k].metadata.transformed_at # ""
                /\ results[i].success

RECURSIVE RemoveRecord(_, _)
RemoveRecord(seq, k) ==
    IF k = 1 THEN Tail(seq) ELSE <<Head(seq)>> \o RemoveRecord(Tail(seq), k - 1)

\* The entries with their recordId left out: what happened to each record.
Outcomes(entries) ==
    [i \in DOMAIN entries |-> [entries[i] EXCEPT !.recordId = 0]]

Failing(entries) == { i \in DOMAIN entries : ~entries[i].success }

\* C4: every notification of a batch gets exactly one outcome entry, in batch
\* order; a notification that fails does not change the outcome of any other
\* notification (the batch without it has the same outcomes for the others),
\* and one failing record out of three is reported as total=3, failed=1,
\* successful=2.
C4_BatchIsolation ==
    Reported =>
        /\ Len(results) = Len(event)
        /\ \A i \in DOMAIN event : results[i].recordId = event[i].messageId
        /\ response.results = results
        /\ \A k \in Failing(results) :
              Outcomes(RemoveRecord(results, k)) =
                  Outcomes(HandleBatch(RemoveRecord(event, k), RemoveRecord(faults, k),
                                       entry_store, <<>>).entries)
        /\ response.total = Len(event)
        /\ response.failed = Cardinality(Failing(results))
        /\ response.successful = response.total - response.failed
        /\ (Len(event) = 3 /\ Cardinality(Failing(results)) = 1) =>
              (response.total = 3 /\ response.failed = 1 /\ response.successful = 2)

\* Three notifications, the second fails on its own body, the first and third
\* keep their own outcome.
C4_Witness ==
    /\ Reported
    /\ Len(event) = 3
    /\ Failing(results) = {2}
    /\ response.total = 3 /\ response.failed = 1 /\ response.successful = 2

\* C5: an invocation always ends in a response: the per-record report with
\* total, successful, failed and the results, even when every record failed;
\* the batch-level error is returned only when _initialize raised, and then no
\* record of the batch was fetched, transformed or written.
C5_ReportUnlessInitFails ==
    pc = "done" =>
        /\ response.statusCode \in {200, 500}
        /\ (response.statusCode = 500) <=> init_raised
        /\ response.statusCode = 500 =>
              (calls = <<>> /\ results = <<>> /\ transformed = entry_store)
        /\ response.statusCode = 200 =>
              /\ response.results = results
              /\ Len(results) = Len(event)
              /\ response.total = Len(results)
              /\ response.successful + response.failed = response.total

\* A batch in which every record failed still ends in the report.
C5_Witness ==
    /\ Reported
    /\ Len(event) >= 2
    /\ Failing(results) = DOMAIN event
    /\ response.failed = Len(event)
    /\ \E i \in DOMAIN event : faults[i] = "staged_error"

\* The envelope parses, carries a change with a record_id, and reports
\* another event or another stage than record_added from staged.
OtherEnvelope(record) ==
    /\ record.body.json /\ record.body.has_change /\ record.body.has_record_id
    /\ ~(record.body.change.event = "record_added" /\ record.body.change.stage = "staged")

\* C19: the batch handler validates each change envelope: one whose event is
\* not "record_added" or whose stage is not "staged" is ignored, with no
\* staged fetch, no engine call and no store write, and is not counted as an
\* error.
C19_EnvelopeValidated ==
    \A i \in DOMAIN results :
        OtherEnvelope(event[i]) =>
            /\ calls[i] = <<>>
            /\ results[i].error = ""
            /\ Reported => response.failed = Cardinality(Failing(results))
                           /\ i \notin Failing(results)

\* The i-th record got past the idempotency check (no transformed snapshot)
\* and its staged payload is one a skip condition of the configuration skips.
SkippedByCondition(i) ==
    LET sid == SidOf(event[i])
    IN  /\ sid \in Sids
        /\ Len(calls[i]) >= 2
        /\ calls[i][2] = Call("get_transformed", sid, "not_found")
        /\ EngineResult(sid).skipped

\* The idempotency check found a transformed snapshot for the i-th record.
FoundTransformed(i) ==
    /\ Len(calls[i]) >= 2
    /\ calls[i][2] = Call("get_transformed", SidOf(event[i]), "found")

\* C21: in every batch report total is the number of notifications of the
\* batch and successful + failed = total; a record skipped by a skip
\* condition or found already transformed counts toward successful, with no
\* write; only the records with a failure outcome count toward failed.
C21_ReportCounts ==
    Reported =>
        /\ response.total = Len(event)
        /\ response.successful + response.failed = response.total
        /\ response.failed = Cardinality(Failing(results))
        /\ \A i \in DOMAIN event :
              (SkippedByCondition(i) \/ FoundTransformed(i)) =>
                  /\ results[i].success /\ results[i].skipped
                  /\ i \notin Failing(results)
                  /\ PostsIn(calls[i], SidOf(event[i])) = {}

\* The envelope lacks the change, the record_id, or one of the two
\* identifiers of the record_id.
LacksIdentifier(record) ==
    \/ ~record.body.has_change
    \/ ~record.body.has_record_id
    \/ record.body.change.record_id.ocid = ""
    \/ record.body.change.record_id.bid = ""

\* The messages of the three ValueErrors of lines 115, 120 and 125.
ValidationErrors ==
    { "No change event found in message", "No record_id found in change event",
      "Invalid record_id: missing ocid or bid" }

\* C22: an envelope that lacks the change, the record_id, or either identifier
\* of the record_id fails with a validation error as its own failed entry of
\* the report, causes no storage read or write, and does not abort the
\* remaining envelopes of the batch: each of them is still processed.
C22_MissingIdentifierFails ==
    /\ pc = "done" /\ ~init_raised => Reported /\ Len(results) = Len(event)
    /\ \A i \in DOMAIN results :
          LacksIdentifier(event[i]) =>
              /\ ~results[i].success
              /\ results[i].recordId = event[i].messageId
              /\ results[i].error \in ValidationErrors
              /\ calls[i] = <<>>
              /\ Reported => i \in Failing(response.results)
              /\ \A j \in DOMAIN results :
                    (j > i /\ ~LacksIdentifier(event[j])) =>
                        /\ calls[j] # <<>>
                        /\ calls[j][1].op = "get_staged"
                        /\ calls[j][1].sid = SidOf(event[j])

\* A reported batch of three: the first envelope has no change, the second a
\* record_id without bid, and the third, complete, had its staged payload
\* fetched.
C22_Witness ==
    /\ Reported
    /\ Len(event) = 3
    /\ ~event[1].body.has_change
    /\ results[1].error = "No change event found in message"
    /\ event[2].body.has_record_id /\ event[2].body.change.record_id.bid = ""
    /\ results[2].error = "Invalid record_id: missing ocid or bid"
    /\ {1, 2} \subseteq Failing(results)
    /\ calls[1] = <<>> /\ calls[2] = <<>>
    /\ calls[3] # <<>> /\ calls[3][1] = Call("get_staged", SidOf(event[3]), "ok")

\* The fetch of the transformed-stage snapshot of the i-th record failed with
\* an error other than not-found.
ProbeFailed(i) ==
    /\ Len(calls[i]) >= 2
    /\ calls[i][2] = Call("get_transformed", SidOf(event[i]), "error")

\* The entry the same record gets when the store holds no transformed
\* snapshot of it and says so.
NotFoundEntry(i) ==
    process_record(event[i], "none",
                   [transformed EXCEPT ![SidOf(event[i])] = EmptyStore[SidOf(event[i])]]).entry

\* C23: the idempotency check distinguishes not-found from other errors: a
\* record whose transformed-stage fetch fails with an error other than
\* not-found is reported as a failure entry of its own, not handled as a
\* record without transformed snapshot, and no engine call and no write is
\* made for it.
C23_ProbeErrorIsFailure ==
    \A i \in DOMAIN results :
        ProbeFailed(i) =>
            /\ ~results[i].success
            /\ results[i] # NotFoundEntry(i)
            /\ Len(calls[i]) = 2
            /\ PostsIn(calls[i], SidOf(event[i])) = {}

\* The steps of one notification, in the order of the data flow.
Steps == <<"get_staged", "get_transformed", "transform_record", "post_snapshot_json">>

\* The three terminal outcomes, read from the entry of the record: the skip
\* entry (lines 143-148, 166-171), the entry of a stored record (189-195),
\* the failure entry (199-203).
OutcomeSkipped(entry) == entry.success /\ entry.skipped /\ entry.reason # <<>>

OutcomeTransformed(entry) == entry.success /\ ~entry.skipped /\ entry.ocid # ""

OutcomeFailed(entry) == ~entry.success /\ entry.error # ""

\* C25: each notification the batch handler processes ends in exactly one
\* terminal outcome (skipped, transformed or failed); its steps are ordered:
\* staged fetch, then idempotency check, then engine call, then store write,
\* none of them without the one before; a store write is made only on the
\* transformed outcome, never for a skipped or failed notification.
C25_OrderedSteps ==
    \A i \in DOMAIN results :
        /\ Cardinality({ o \in {"skipped", "transformed", "failed"} :
              \/ o = "skipped" /\ OutcomeSkipped(results[i])
              \/ o = "transformed" /\ OutcomeTransformed(results[i])
              \/ o = "failed" /\ OutcomeFailed(results[i]) }) = 1
        /\ Len(calls[i]) <= Len(Steps)
        /\ \A k \in DOMAIN calls[i] :
              /\ calls[i][k].op = Steps[k]
              /\ calls[i][k].sid = SidOf(event[i])
        /\ PostsIn(calls[i], SidOf(event[i])) # {} <=> OutcomeTransformed(results[i])

\* A reported batch with the outcomes the handler reaches: a record skipped
\* as already transformed after fetch and check, one that failed at the
\* staged fetch, one that failed after fetch and check; none of them wrote.
C25_Witness ==
    /\ Reported
    /\ Len(event) = 3
    /\ OutcomeSkipped(results[1])
    /\ calls[1] = <<Call("get_staged", SidOf(event[1]), "ok"),
                    Call("get_transformed", SidOf(event[1]), "found")>>
    /\ OutcomeFailed(results[2])
    /\ calls[2] = <<Call("get_staged", SidOf(event[2]), "raised")>>
    /\ OutcomeFailed(results[3])
    /\ calls[3] = <<Call("get_staged", SidOf(event[3]), "ok"),
                    Call("get_transformed", SidOf(event[3]), "not_found")>>
    /\ \A i \in 1..3 : PostsIn(calls[i], SidOf(event[i])) = {}

\* A step that enters handle_sqs_event.
Entered == pc = "idle" /\ pc' # "idle"

\* C29: over any sequence of handle_sqs_event calls on one handler,
\* initialization (constructing the bus, loading the configuration,
\* constructing the Transformer) is performed by a call that finds the handler
\* uninitialized and is skipped by every call once _initialized is set: such a
\* call constructs nothing and keeps the bus, configuration and Transformer
\* it has, so they are constructed at most once after that.
C29_InitializedOnce ==
    [][ /\ (Entered /\ ~handler.initialized) => init_calls' # <<>>
        /\ (Entered /\ handler.initialized) =>
              /\ init_calls' = <<>>
              /\ ~init_raised'
              /\ handler' = handler
        /\ (handler'.initialized /\ ~handler.initialized) =>
              /\ Entered
              /\ init_calls' = <<"DataPipelineBus", "DataPipelineConfig", "Transformer">>
        /\ handler.initialized => handler'.initialized
      ]_vars

\* A later call on the initialized handler constructed nothing and went on to
\* report on its records.
C29_Witness ==
    /\ Reported
    /\ handler.initialized
    /\ handler.bus = "bus" /\ handler.config = "config"
    /\ handler.transformer = "transformer"
    /\ init_calls = <<>>
    /\ Len(results) >= 1

\* C30: _initialized is true only after an _initialize call that returned
\* without raising: when _initialize raises, and the invocation ends in the
\* batch-level error response, _initialized is still false, so that the next
\* invocation initializes again.
C30_FlagOnlyAfterSuccess ==
    (pc = "done" /\ init_raised) =>
        /\ response.statusCode = 500
        /\ ~handler.initialized

-----------------------------------------------------------------------------
(* Claims about concurrent handlers, checked under SpecConcurrent *)

\* Instance w passed the idempotency check for sid: it read the transformed
\* stage and found no snapshot.
PassedCheck(w, sid) ==
    /\ Len(workers[w].calls) >= 2
    /\ workers[w].calls[2] = Call("get_transformed", sid, "not_found")

\* C26: the idempotency check is not atomic with the write: two handlers
\* running concurrently on a notification for the same SnapshotId can both
\* find no transformed snapshot and both pass the check, and then both call
\* post_snapshot_json: two writes for the one SnapshotId.
C26_BothPassBothWrite ==
    \A sid \in Sids :
        ( /\ Transformable(sid)
          /\ \A w \in Handlers : workers[w].pc = "done" /\ PassedCheck(w, sid) ) =>
            /\ \A w \in Handlers : PostsIn(workers[w].calls, sid) # {}
            /\ post_count[sid] = 2

-----------------------------------------------------------------------------
(* Claims about the strategies, checked under SpecStrategy *)

Applied(kind) == unit_output.returned /\ unit_strategy.kind = kind

IsDigit(c) == c \in {"0", "1", "2", "3", "4", "5", "6", "7", "8", "9"}

\* C14: LookupMappingStrategy.transform maps a key present in the table
\* (after trimming surrounding whitespace) to its table value, an absent key
\* to the input unchanged, and a None or blank (empty or whitespace-only)
\* input to None.
C14_LookupTransform ==
    Applied("oc.lookup_mapping_file") =>
        LET key == Strip(PyStr(unit_value))
        IN  unit_output.value =
                IF unit_value = None \/ BlankText(unit_value)
                THEN None
                ELSE IF key \in DOMAIN unit_strategy.mapping_data
                     THEN unit_strategy.mapping_data[key]
                     ELSE unit_value

\* A string of exactly 8 digits.
EightDigits(v) == v.t = "str" /\ Len(v.s) = 8 /\ \A i \in 1..8 : IsDigit(v.s[i])

\* C16: ParseDateStrategy.transform returns "YYYY-MM-DD" for a string of
\* exactly 8 digits MMDDYYYY and None for every other input: another length,
\* non-numeric content (8 non-digit characters included), empty or None.
C16_ParseDate ==
    Applied("us_fl.parse_date") =>
        unit_output.value =
            IF EightDigits(unit_value)
            THEN Str(SubSeq(unit_value.s, 5, 8) \o <<"-">> \o SubSeq(unit_value.s, 1, 2)
                     \o <<"-">> \o SubSeq(unit_value.s, 3, 4))
            ELSE None

StrTrue == Str(<<"t", "r", "u", "e">>)

StrFalse == Str(<<"f", "a", "l", "s", "e">>)

\* C17 as stated: "FOR" and "FLL" give "true", "DOM" gives "false", and every
\* other input gives None.
C17_TriStateExact ==
    Applied("us_fl.determine_branch_status") =>
        unit_output.value =
            CASE unit_value \in {Str(<<"F", "O", "R">>), Str(<<"F", "L", "L">>)} -> StrTrue
              [] unit_value = Str(<<"D", "O", "M">>) -> StrFalse
              [] OTHER -> None

\* The filing-type code of a value: its text without surrounding whitespace;
\* a falsy value has none.
FilingCode(v) == IF Truthy(v) THEN Strip(PyStr(v)) ELSE <<>>

\* C17, amended: the code is compared after surrounding whitespace is
\* trimmed; FOR and FLL give "true", DOM gives "false", every other input
\* (unrecognized code, empty string, None) gives None, never a default.
C17_TriStateTrimmed ==
    Applied("us_fl.determine_branch_status") =>
        /\ FilingCode(unit_value) \in {<<"F", "O", "R">>, <<"F", "L", "L">>}
              => unit_output.value = StrTrue
        /\ FilingCode(unit_value) = <<"D", "O", "M">> => unit_output.value = StrFalse
        /\ FilingCode(unit_value) \notin {<<"F", "O", "R">>, <<"F", "L", "L">>, <<"D", "O", "M">>}
              => unit_output.value = None

\* An unrecognized code has been classified.
C17_Witness ==
    /\ Applied("us_fl.determine_branch_status")
    /\ unit_value = Str(<<"L", "L", "C">>)
    /\ unit_output.value = None

-----------------------------------------------------------------------------
(* Claims about process_record_added_event, checked under SpecCli *)

Actionable(change_event) ==
    change_event.event = "record_added" /\ change_event.stage = "staged"

CallsOf(run_calls, ops) == { k \in DOMAIN run_calls : run_calls[k].op \in ops }

\* C18: process_record_added_event acts only on a change event with event
\* "record_added" and stage "staged"; for every other combination it returns
\* without raising and makes no get_snapshot_json and no post_snapshot_json
\* call.
C18_OnlyRecordAddedStaged ==
    (cli_run.ran /\ ~Actionable(cli_run.change_event)) =>
        /\ ~cli_run.raised
        /\ CallsOf(cli_run.calls, {"get_staged", "get_transformed", "transform_record",
                                   "post_snapshot_json"}) = {}

\* A record_added event of another stage was received and ignored.
C18_Witness ==
    /\ cli_run.ran
    /\ cli_run.change_event.event = "record_added"
    /\ cli_run.change_event.stage = "parsed"
    /\ cli_run.calls = <<Call("get_change_event", cli_run.change_event.sid, "ok")>>

\* C20: for an actionable change event whose staged payload is fetched,
\* post_snapshot_json is called exactly once when the engine result is success
\* and not skipped, and not at all when it is skipped or failed; a skipped
\* record returns normally.
C20_WriteOnlyOnSuccess ==
    (cli_run.ran /\ Actionable(cli_run.change_event) /\ cli_run.fault = "none") =>
        LET posts == CallsOf(cli_run.calls, {"post_snapshot_json"})
            r == cli_run.result
        IN  /\ Cardinality(CallsOf(cli_run.calls, {"transform_record"})) = 1
            /\ (r.success /\ ~r.skipped) => Cardinality(posts) = 1
            /\ (r.skipped \/ ~r.success) => posts = {}
            /\ r.skipped => ~cli_run.raised

\* A skipped record returned normally after an earlier run had written.
C20_Witness ==
    /\ cli_run.ran
    /\ Actionable(cli_run.change_event)
    /\ cli_run.result.skipped
    /\ ~cli_run.raised
    /\ CallsOf(cli_run.calls, {"post_snapshot_json"}) = {}
    /\ \E sid \in Sids : cli_posts[sid] = 1

\* C27: process_record_added_event applies the idempotency protocol of the
\* batch handler: a run on an actionable change event reads the transformed
\* stage of the SnapshotId before it writes, so that runs for the same change
\* event make at most one post_snapshot_json write.
C27_CliAtMostOneWrite ==
    /\ \A sid \in Sids : cli_posts[sid] <= 1
    /\ (cli_run.ran /\ Actionable(cli_run.change_event)) =>
          \A k \in CallsOf(cli_run.calls, {"post_snapshot_json"}) :
              \E j \in CallsOf(cli_run.calls, {"get_transformed"}) : j < k

=============================================================================
